---- MODULE Spec2Model ----
(***************************************************************************)
(* Model of src/type/Range.js (mathjs): the Range type, a lazy arithmetic  *)
(* progression start, start+step, ... bounded by end.                      *)
(*                                                                         *)
(* JavaScript numbers are IEEE-754 doubles.  They are modelled as tagged   *)
(* records: Infinity, -Infinity, NaN and the finite numbers a binary       *)
(* floating-point format with a mantissa of Precision bits represents, the *)
(* mantissa of 53 bits of a double scaled down.  Every arithmetic result   *)
(* is rounded to the nearest representable number, ties to even, as the    *)
(* double operations do.  The fields of a Range are integers; quotients    *)
(* have fractions.                                                         *)
(*                                                                         *)
(* Strings are sequences of one-character strings; the one-character       *)
(* string "I" stands for the word Infinity and "N" for the word NaN.       *)
(***************************************************************************)
EXTENDS Integers, Sequences, FiniteSets

(***************************************************************************)
(* Bounds of the model.                                                    *)
(***************************************************************************)
\* bits of the mantissa of a number (53 in a double)
Precision == 2
\* finite fields of the Ranges of NumSpec are drawn from -MaxNum..MaxNum
MaxNum == 6
\* finite arguments of the constructor in Spec are drawn from -MaxSmall..MaxSmall
MaxSmall == 2
\* longest text handed to Range.parse
MaxLen == 5
\* the traversal of a range is followed for at most MaxIter callbacks; no
\* traversal over fields in -MaxNum..MaxNum that ends is longer
MaxIter == 2 * MaxNum + 2

(***************************************************************************)
(* JavaScript values.                                                      *)
(***************************************************************************)
Fin(n) == [k |-> "fin", v |-> n]
PosInf == [k |-> "inf", v |-> 1]
NegInf == [k |-> "inf", v |-> -1]
NaN == [k |-> "nan", v |-> 0]
\* null and undefined (an omitted argument); the source tests both with != null
Null == [k |-> "null", v |-> 0]
\* a value that is neither a number nor a string nor null, e.g. an object
Junk == [k |-> "junk", v |-> 0]
Str(s) == [k |-> "str", v |-> s]
Bool(b) == [k |-> "bool", v |-> b]
Arr(a) == [k |-> "array", v |-> a]
\* a reference to the Range object held in variable this ("this") or other
Ref(o) == [k |-> "range", v |-> o]
\* a Matrix wrapping a copy of an array
Mat(a) == [k |-> "matrix", v |-> a]

IsNum(a) == a.k \in {"fin", "inf", "nan"}
IsFin(a) == a.k = "fin"
Sgn(n) == IF n > 0 THEN 1 ELSE IF n < 0 THEN -1 ELSE 0
Abs(n) == IF n < 0 THEN -n ELSE n

\* isNaN(num)
IsNaN(a) == a.k = "nan"
\* a < b
Lt(a, b) ==
    /\ ~IsNaN(a) /\ ~IsNaN(b)
    /\ \/ IsFin(a) /\ IsFin(b) /\ a.v < b.v
       \/ a = NegInf /\ b # NegInf
       \/ b = PosInf /\ a # PosInf
\* a == b on numbers (NaN equals nothing)
NumEq(a, b) == ~IsNaN(a) /\ ~IsNaN(b) /\ a = b
\* a <= b
Le(a, b) == Lt(a, b) \/ NumEq(a, b)
\* a > b
Gt(a, b) == Lt(b, a)
\* a >= b
Ge(a, b) == Le(b, a)
\* -a
Neg(a) == IF IsNaN(a) THEN NaN ELSE [k |-> a.k, v |-> -a.v]
RECURSIVE Pow2(_)
Pow2(e) == IF e = 0 THEN 1 ELSE 2 * Pow2(e - 1)

\* n / d rounded to the nearest integer, ties to the even one (n >= 0, d > 0)
RoundHalfEven(n, d) ==
    LET q == n \div d
        r == n % d
    IN  IF 2 * r > d \/ (2 * r = d /\ q % 2 = 1) THEN q + 1 ELSE q

RECURSIVE ExpOf(_, _)
\* the least e >= 0 with n < d * 2^(Precision + e)
ExpOf(n, d) == IF n < d * Pow2(Precision) THEN 0 ELSE 1 + ExpOf(n, 2 * d)

RECURSIVE FracOf(_, _)
\* the least k >= 0 with n * 2^k >= d * 2^(Precision - 1), for n > 0
FracOf(n, d) == IF n >= d * Pow2(Precision - 1) THEN 0 ELSE 1 + FracOf(2 * n, d)

\* the integer n rounded to a mantissa of Precision bits
RoundInt(n) ==
    LET u == Pow2(ExpOf(Abs(n), 1))
    IN  Sgn(n) * RoundHalfEven(Abs(n), u) * u

\* a + b
Add(a, b) ==
    IF IsNaN(a) \/ IsNaN(b) THEN NaN
    ELSE IF IsFin(a) /\ IsFin(b) THEN Fin(RoundInt(a.v + b.v))
    ELSE IF IsFin(a) THEN b
    ELSE IF IsFin(b) THEN a
    ELSE IF a = b THEN a ELSE NaN
\* a - b
Sub(a, b) == Add(a, Neg(b))
\* the floor of the quotient n / d rounded to a mantissa of Precision bits
\* (n > 0, d > 0)
FloorRounded(n, d) ==
    IF n >= d * Pow2(Precision - 1)
    THEN LET u == Pow2(ExpOf(n, d)) IN RoundHalfEven(n, d * u) * u
    ELSE LET u == Pow2(FracOf(n, d)) IN RoundHalfEven(n * u, d) \div u
\* the ceiling of the same rounded quotient
CeilRounded(n, d) ==
    IF n >= d * Pow2(Precision - 1)
    THEN LET u == Pow2(ExpOf(n, d)) IN RoundHalfEven(n, d * u) * u
    ELSE LET u == Pow2(FracOf(n, d))
             m == RoundHalfEven(n * u, d)
         IN  IF m % u = 0 THEN m \div u ELSE (m \div u) + 1
\* Math.floor(p / q) for integers p and q # 0
FloorQuot(p, q) ==
    IF p = 0 THEN 0
    ELSE IF Sgn(p) = Sgn(q) THEN FloorRounded(Abs(p), Abs(q))
    ELSE -CeilRounded(Abs(p), Abs(q))
\* Math.floor(a / b)
FloorDiv(a, b) ==
    IF IsNaN(a) \/ IsNaN(b) THEN NaN
    ELSE IF IsFin(a) /\ IsFin(b) THEN
        IF b.v # 0 THEN Fin(FloorQuot(a.v, b.v))
        ELSE IF a.v = 0 THEN NaN
        ELSE [k |-> "inf", v |-> Sgn(a.v)]
    ELSE IF IsFin(a) THEN Fin(0)
    ELSE IF IsFin(b) THEN [k |-> "inf", v |-> IF b.v < 0 THEN -a.v ELSE a.v]
    ELSE NaN

\* math.sign(x): 1 for a positive number, -1 for a negative one, 0 otherwise
Sign(a) == IF Gt(a, Fin(0)) THEN Fin(1) ELSE IF Lt(a, Fin(0)) THEN Fin(-1) ELSE Fin(0)
\* isNumber(value)
IsNumber(a) == IsNum(a)
\* isString(value)
IsString(a) == a.k = "str"

(***************************************************************************)
(* Strings and the conversions between strings and numbers.                *)
(***************************************************************************)
Digits == <<"0", "1", "2", "3", "4", "5", "6", "7", "8", "9">>
DigitChars == {Digits[j] : j \in 1..10}
DigitVal(c) == (CHOOSE j \in 1..10 : Digits[j] = c) - 1

RECURSIVE NatToStr(_)
\* the decimal numeral of a natural number
NatToStr(n) ==
    IF n < 10 THEN <<Digits[n + 1]>>
    ELSE NatToStr(n \div 10) \o <<Digits[(n % 10) + 1]>>

\* math.format(number): the decimal numeral of an integer, Infinity, NaN
Format(a) ==
    IF IsNaN(a) THEN <<"N">>
    ELSE IF a = PosInf THEN <<"I">>
    ELSE IF a = NegInf THEN <<"-", "I">>
    ELSE IF a.v < 0 THEN <<"-">> \o NatToStr(-a.v)
    ELSE NatToStr(a.v)

RECURSIVE StrToNat(_)
\* the value of a non-empty sequence of decimal digits
StrToNat(s) ==
    IF Len(s) = 1 THEN DigitVal(s[1])
    ELSE 10 * StrToNat(SubSeq(s, 1, Len(s) - 1)) + DigitVal(s[Len(s)])

RECURSIVE Trim(_)
\* s without its leading and trailing white space
Trim(s) ==
    IF s = <<>> THEN s
    ELSE IF s[1] = " " THEN Trim(Tail(s))
    ELSE IF s[Len(s)] = " " THEN Trim(SubSeq(s, 1, Len(s) - 1))
    ELSE s

\* the value of an unsigned numeral: digits, rounded to the nearest number, or
\* the word Infinity
Unsigned(s) ==
    IF s = <<"I">> THEN PosInf
    ELSE IF s # <<>> /\ \A j \in 1..Len(s) : s[j] \in DigitChars
         THEN Fin(RoundInt(StrToNat(s)))
    ELSE NaN

\* Number(arg) on a string: white space is trimmed, the empty string is 0, an
\* optional minus sign precedes digits or Infinity, anything else is NaN
ToNumber(s) ==
    LET t == Trim(s)
    IN  IF t = <<>> THEN Fin(0)
        ELSE IF t[1] = "-" THEN Neg(Unsigned(Tail(t)))
        ELSE Unsigned(t)

RECURSIVE Split(_)
\* str.split(':'): the tokens between the colons, at least one
Split(s) ==
    IF \A j \in 1..Len(s) : s[j] # ":" THEN <<s>>
    ELSE LET p == CHOOSE j \in 1..Len(s) : s[j] = ":" /\ \A m \in 1..(j - 1) : s[m] # ":"
         IN  <<SubSeq(s, 1, p - 1)>> \o Split(SubSeq(s, p + 1, Len(s)))

(***************************************************************************)
(* Range objects.                                                          *)
(***************************************************************************)
NoRange == [k |-> "none"]
RangeObj(start, step, end) == [k |-> "obj", start |-> start, step |-> step, end |-> end]
\* the errors thrown: their type and the parameter the message names
NoError == [type |-> "none", param |-> "none"]
SyntaxError == [type |-> "SyntaxError", param |-> "none"]
TypeError(param) == [type |-> "TypeError", param |-> param]
Returned(v) == [thrown |-> NoError, value |-> v]
Thrown(e) == [thrown |-> e, value |-> NoRange]

\* the constructor without its check of step
Range_NoStepCheck(withNew, start, step, end) ==
    IF ~withNew THEN Thrown(SyntaxError)
    ELSE IF start # Null /\ ~IsNumber(start) THEN Thrown(TypeError("start"))
    ELSE IF end # Null /\ ~IsNumber(end) THEN Thrown(TypeError("end"))
    ELSE Returned(RangeObj(IF start # Null THEN start ELSE Fin(0),
                           IF step # Null THEN step ELSE Fin(1),
                           IF end # Null THEN end ELSE Fin(0)))

\* function Range(start, step, end): the new object, or the error thrown
Range(withNew, start, step, end) ==
    IF ~withNew THEN Thrown(SyntaxError)
    ELSE IF start # Null /\ ~IsNumber(start) THEN Thrown(TypeError("start"))
    ELSE IF end # Null /\ ~IsNumber(end) THEN Thrown(TypeError("end"))
    ELSE IF step # Null /\ ~IsNumber(step) THEN Thrown(TypeError("step"))
    ELSE Returned(RangeObj(IF start # Null THEN start ELSE Fin(0),
                           IF step # Null THEN step ELSE Fin(1),
                           IF end # Null THEN end ELSE Fin(0)))

\* Range.parse(str): a new Range, or NoRange for the null it returns
ParseRange(str) ==
    IF ~IsString(str) THEN Returned(NoRange)
    ELSE LET args == Split(str.v)
             nums == [j \in 1..Len(args) |-> ToNumber(args[j])]
             invalid == \E j \in 1..Len(nums) : IsNaN(nums[j])
         IN  IF invalid THEN Returned(NoRange)
             ELSE IF Len(nums) = 2 THEN Range(TRUE, nums[1], Fin(1), nums[2])
             ELSE IF Len(nums) = 3 THEN Range(TRUE, nums[1], nums[2], nums[3])
             ELSE Returned(NoRange)

\* clone handing the fields to the constructor in the order start, end, step
CloneRange_SwapsStepEnd(r) == Range(TRUE, r.start, r.end, r.step)

\* Range.prototype.clone: the fields of the new Range
CloneRange(r) == Range(TRUE, r.start, r.step, r.end)

\* size without the comparison of the signs of step and diff
SizeOf_NoDirection(r) ==
    LET diff == Sub(r.end, r.start)
        len == IF ~NumEq(r.step, Fin(0)) THEN Add(FloorDiv(diff, r.step), Fin(1))
               ELSE IF NumEq(diff, Fin(0)) THEN Fin(1)
               ELSE Fin(0)
    IN  <<IF IsNaN(len) THEN Fin(0) ELSE len>>

\* Range.prototype.size
SizeOf(r) ==
    LET start == r.start
        step == r.step
        end == r.end
        diff == Sub(end, start)
        len == IF NumEq(Sign(step), Sign(diff)) THEN Add(FloorDiv(diff, step), Fin(1))
               ELSE IF NumEq(diff, Fin(0)) THEN Fin(1)
               ELSE Fin(0)
    IN  <<IF IsNaN(len) THEN Fin(0) ELSE len>>

\* Range.prototype.isVector
IsVectorOf(r) == TRUE

\* Range.prototype.isScalar
IsScalarOf(r) == NumEq(SizeOf(r)[1], Fin(1))

\* toString writing the step last: start:end:step
ToStringOf_StepLast(r) ==
    LET str == Format(r.start) \o <<":">> \o Format(r.end)
    IN  IF ~NumEq(r.step, Fin(1)) THEN str \o <<":">> \o Format(r.step) ELSE str

\* Range.prototype.toString
ToStringOf(r) ==
    LET str == Format(r.start)
        mid == IF ~NumEq(r.step, Fin(1)) THEN str \o <<":">> \o Format(r.step) ELSE str
    IN  mid \o <<":">> \o Format(r.end)

\* forEach taking the first branch for step >= 0
LoopCond_AllowsZeroStep(r, xx) ==
    \/ Ge(r.step, Fin(0)) /\ Le(xx, r.end)
    \/ Lt(r.step, Fin(0)) /\ Ge(xx, r.end)

\* the loop conditions of Range.prototype.forEach: step > 0 and x <= end, or
\* step < 0 and x >= end
LoopCond(r, xx) ==
    \/ Gt(r.step, Fin(0)) /\ Le(xx, r.end)
    \/ Lt(r.step, Fin(0)) /\ Ge(xx, r.end)

\* x += step
NextX(r, xx) == Add(xx, r.step)

\* i++
NextI(ii) == ii + 1

\* array[index] = value on a JavaScript array: the array grows to hold the
\* index, and the elements never assigned are undefined
SetAt(a, index, value) ==
    [j \in 1..(IF index + 1 > Len(a) THEN index + 1 ELSE Len(a)) |->
        IF j = index + 1 THEN value ELSE IF j <= Len(a) THEN a[j] ELSE Null]

\* the callback the caller hands to map: here it negates the value
UserCallback(value, index, obj) == Neg(value)

\* the callbacks of forEach, map and toArray: the array after callback(x, i, this)
CallbackStore(o, a, value, index, obj) ==
    IF o = "forEach" THEN a
    ELSE IF o = "map" THEN SetAt(a, index, UserCallback(value, index, obj))
    ELSE SetAt(a, index, value)

\* what the operation built on forEach returns once the traversal is over
ResultOf(o, a) ==
    IF o = "forEach" THEN Null
    ELSE IF o = "toMatrix" THEN Mat(a)
    ELSE IF o = "toScalar" THEN (IF Len(a) = 1 THEN a[1] ELSE Null)
    ELSE Arr(a)

(***************************************************************************)
(* Inputs.                                                                 *)
(***************************************************************************)
\* the numbers of magnitude up to m: the integers a mantissa of Precision bits
\* represents, the infinities and NaN
NumsUpTo(m) == {Fin(n) : n \in {j \in -m..m : RoundInt(j) = j}} \cup {PosInf, NegInf, NaN}
\* the fields of the Ranges of NumSpec
Nums == NumsUpTo(MaxNum)
\* the arguments a caller hands to the constructor in Spec: numbers, an
\* omitted argument, an object, a string
ArgVals == NumsUpTo(MaxSmall) \cup {Null, Junk, Str(<<"1">>)}
\* the characters of the texts handed to Range.parse
InputChars == {"1", "-", ":", "a", "I", " "}
RECURSIVE SeqsUpTo(_, _)
SeqsUpTo(S, n) ==
    IF n = 0 THEN {<<>>}
    ELSE LET shorter == SeqsUpTo(S, n - 1)
         IN  shorter \cup {Append(s, c) : s \in {t \in shorter : Len(t) = n - 1}, c \in S}
InputTexts == {Str(s) : s \in SeqsUpTo(InputChars, MaxLen)} \cup {Fin(42), Null, Junk}

\* the operations built on forEach
ForEachOps == {"forEach", "map", "toArray", "toVector", "toMatrix", "toScalar", "valueOf"}
\* those of them that return the array of toArray
ArrayOps == {"toArray", "toVector", "valueOf"}

(***************************************************************************)
(* State.                                                                  *)
(***************************************************************************)
VARIABLES
    this,     \* the Range under test, NoRange before it is constructed
    other,    \* the Range last derived from it by clone or parse, or NoRange
    origin,   \* how other was made: "none", "clone" or "parse"
    pc,       \* "idle", or "loop" inside forEach
    op,       \* the operation called last
    self,     \* the object it was called on: "this" or "other"
    arg,      \* its arguments
    x,        \* forEach: var x
    i,        \* forEach: var i
    array,    \* map, toArray: var array
    calls,    \* the callback invocations of the running traversal, in order
    ret,      \* the value the last operation returned
    thrown,   \* the error the last operation threw, or NoError
    memo      \* the array the last toArray of the Range under test returned, or Null

vars == <<this, other, origin, pc, op, self, arg, x, i, array, calls, ret, thrown, memo>>

Obj(o) == IF o = "this" THEN this ELSE other
\* the objects a method is called on: every method on the Range under test; the
\* Range derived from it is read back with toArray, toVector and valueOf
Objects == {o \in {"this", "other"} : Obj(o) # NoRange}
\* the locals of forEach and of its callers do not outlive the call
NoLocals == x' = Null /\ i' = 0 /\ array' = <<>> /\ calls' = <<>>

Init ==
    /\ this = NoRange /\ other = NoRange /\ origin = "none"
    /\ pc = "idle" /\ op = "none" /\ self = "none" /\ arg = <<>>
    /\ x = Null /\ i = 0 /\ array = <<>> /\ calls = <<>>
    /\ ret = Null /\ thrown = NoError
    /\ memo = Null

\* new Range(start, step, end), or Range(start, step, end) without new: the
\* first call of a run, which makes the Range under test
New(withNew, start, step, end) ==
    /\ pc = "idle"
    /\ LET r == Range(withNew, start, step, end)
       IN  /\ this' = r.value
           /\ thrown' = r.thrown
           /\ ret' = IF r.thrown = NoError THEN Ref("this") ELSE Null
    /\ op' = "new" /\ self' = "none" /\ arg' = <<Bool(withNew), start, step, end>>
    /\ NoLocals
    /\ UNCHANGED <<other, origin, pc, memo>>

\* Range.parse(str): as the first call of a run it makes the Range under test
\* from any text; later on, the text parsed is the one toString returned for
\* the Range under test
Parse(str) ==
    /\ pc = "idle"
    /\ LET r == ParseRange(str)
           target == IF op = "none" THEN "this" ELSE "other"
       IN  /\ thrown' = r.thrown
           /\ ret' = IF r.value = NoRange THEN Null ELSE Ref(target)
           /\ IF r.value = NoRange THEN UNCHANGED <<this, other, origin, memo>>
              ELSE IF target = "this" THEN this' = r.value /\ UNCHANGED <<other, origin, memo>>
              ELSE other' = r.value /\ origin' = "parse" /\ UNCHANGED <<this, memo>>
    /\ op' = "parse" /\ self' = "none" /\ arg' = <<str>>
    /\ NoLocals
    /\ UNCHANGED pc

ParseInput == op = "none" /\ \E str \in InputTexts : Parse(str)
ParseToString == this # NoRange /\ op = "toString" /\ self = "this" /\ Parse(ret)

\* this.clone()
Clone ==
    /\ pc = "idle" /\ this # NoRange
    /\ LET r == CloneRange(this)
       IN  /\ thrown' = r.thrown
           /\ other' = r.value /\ origin' = "clone"
           /\ ret' = Ref("other")
    /\ op' = "clone" /\ self' = "this" /\ arg' = <<>>
    /\ NoLocals
    /\ UNCHANGED <<this, pc, memo>>

\* the operations that return at once: size, isVector, isScalar, toString
Simple(o, name, value) ==
    /\ pc = "idle"
    /\ ret' = value /\ thrown' = NoError
    /\ op' = name /\ self' = o /\ arg' = <<>>
    /\ NoLocals
    /\ UNCHANGED <<this, other, origin, pc, memo>>

Size == this # NoRange /\ Simple("this", "size", Arr(SizeOf(this)))
IsVector == this # NoRange /\ Simple("this", "isVector", Bool(IsVectorOf(this)))
IsScalar == this # NoRange /\ Simple("this", "isScalar", Bool(IsScalarOf(this)))
ToString == this # NoRange /\ Simple("this", "toString", Str(ToStringOf(this)))

\* forEach, map, toArray, toVector, toMatrix, toScalar, valueOf: the entry of
\* forEach
ForEachCall ==
    \E o \in Objects, name \in ForEachOps :
        /\ pc = "idle"
        /\ o = "other" => name \in ArrayOps
        /\ pc' = "loop" /\ op' = name /\ self' = o /\ arg' = <<>>
        /\ x' = Obj(o).start /\ i' = 0 /\ array' = <<>> /\ calls' = <<>>
        /\ UNCHANGED <<this, other, origin, ret, thrown, memo>>

\* one turn of the while loop: callback(x, i, this); x += step; i++
ForEachIter ==
    /\ pc = "loop" /\ LoopCond(Obj(self), x) /\ i < MaxIter
    /\ calls' = Append(calls, [value |-> x, index |-> i, obj |-> self])
    /\ array' = CallbackStore(op, array, x, i, self)
    /\ x' = NextX(Obj(self), x)
    /\ i' = NextI(i)
    /\ UNCHANGED <<this, other, origin, pc, op, self, arg, ret, thrown, memo>>

\* the loop condition fails: forEach returns, and so does its caller
ForEachReturn ==
    /\ pc = "loop" /\ ~LoopCond(Obj(self), x)
    /\ pc' = "idle"
    /\ ret' = ResultOf(op, array) /\ thrown' = NoError
    /\ memo' = IF op \in ArrayOps /\ self = "this" THEN Arr(array) ELSE memo
    /\ UNCHANGED <<this, other, origin, op, self, arg, x, i, array, calls>>

Construct == op = "none" /\ \E w \in BOOLEAN, a, b, c \in ArgVals : New(w, a, b, c)

\* NumSpec: the Range under test is made with new from numbers of the wider set
ConstructNum == op = "none" /\ \E a, b, c \in Nums : New(TRUE, a, b, c)

Next ==
    \/ Construct
    \/ ParseInput
    \/ ParseToString
    \/ Clone
    \/ Size
    \/ IsVector
    \/ IsScalar
    \/ ToString
    \/ ForEachCall
    \/ ForEachIter
    \/ ForEachReturn

Spec == Init /\ [][Next]_vars

\* the arithmetic of size and forEach over the wider set of numbers
NumNext ==
    \/ ConstructNum
    \/ Size
    \/ IsScalar
    \/ ForEachCall
    \/ ForEachIter
    \/ ForEachReturn

NumSpec == Init /\ [][NumNext]_vars

(***************************************************************************)
(* The properties checked.                                                 *)
(***************************************************************************)
\* the last call was made on a Range and has returned
Done(names) == pc = "idle" /\ op \in names /\ self \in {"this", "other"}
IsFiniteRange(r) == IsFin(r.start) /\ IsFin(r.step) /\ IsFin(r.end)
\* step > 0 and start <= end, or step < 0 and start >= end
Reaches(r) ==
    \/ Gt(r.step, Fin(0)) /\ Le(r.start, r.end)
    \/ Lt(r.step, Fin(0)) /\ Ge(r.start, r.end)
\* step == 0 with start != end, or step > 0 with start > end, or step < 0 with
\* start < end
Unreachable(r) ==
    \/ NumEq(r.step, Fin(0)) /\ ~NumEq(r.start, r.end)
    \/ Gt(r.step, Fin(0)) /\ Gt(r.start, r.end)
    \/ Lt(r.step, Fin(0)) /\ Lt(r.start, r.end)
\* floor((end - start) / step) + 1: in exact arithmetic on finite fields, by
\* the rules of the infinities and NaN otherwise
ClaimedLen(r) ==
    IF IsFiniteRange(r) /\ r.step.v # 0
    THEN Fin((Abs(r.end.v - r.start.v) \div Abs(r.step.v)) + 1)
    ELSE Add(FloorDiv(Sub(r.end, r.start), r.step), Fin(1))
\* k * a for a natural number k, as JavaScript computes it; no step is 0
Times(k, a) ==
    IF k = 0 THEN Fin(0)
    ELSE IF IsFin(a) THEN Fin(RoundInt(k * a.v))
    ELSE a
\* v lies between a and b inclusive
Between(a, v, b) == (Le(a, v) /\ Le(v, b)) \/ (Le(b, v) /\ Le(v, a))

\* C1: for every Range with (step > 0 and start <= end) or (step < 0 and
\* start >= end), size()[0] equals floor((end - start) / step) + 1 and
\* toArray().length equals that same value.
C1_SizeAndLength ==
    (pc = "idle" /\ self \in {"this", "other"} /\ Reaches(Obj(self))) =>
        /\ op = "size" => ret = Arr(<<ClaimedLen(Obj(self))>>)
        /\ op \in ArrayOps => Fin(Len(ret.v)) = ClaimedLen(Obj(self))

\* C2: for every Range that cannot reach its end (step == 0 with start != end,
\* step > 0 with start > end, step < 0 with start < end), size()[0] is 0 and
\* toArray() is the empty array.
C2_UnreachableIsEmpty ==
    (pc = "idle" /\ self \in {"this", "other"} /\ Unreachable(Obj(self))) =>
        /\ op = "size" => ret = Arr(<<Fin(0)>>)
        /\ op \in ArrayOps => ret = Arr(<<>>)

\* C2 happens: toArray has returned for a Range with step < 0 and start < end,
\* and size for a Range with step == 0 and start != end is reachable likewise
C2_Witness ==
    /\ Done({"toArray"}) /\ self = "this"
    /\ this = RangeObj(Fin(-1), Fin(-2), Fin(3))
    /\ ret = Arr(<<>>)

\* C3: during one forEach call the callback is invoked with indices 0, 1, 2,
\* ... in order, none skipped or repeated; invocation k receives the value
\* start + k*step and the traversed Range; every value lies between start and
\* end inclusive.
C3_CallbackSequence ==
    self \in {"this", "other"} =>
        \A n \in 1..Len(calls) :
            /\ calls[n].index = n - 1
            /\ calls[n].obj = self
            /\ calls[n].value = (IF n = 1 THEN Obj(self).start
                                 ELSE Add(Obj(self).start, Times(n - 1, Obj(self).step)))
            /\ Between(Obj(self).start, calls[n].value, Obj(self).end)

\* C4: forEach terminates for every Range with numeric start, step and end.
\* The loop condition reads x and end only, so a traversal that terminates
\* never goes round the loop leaving x as it was: every turn of the loop
\* changes x. Stated for the Ranges whose start, step and end are finite, which
\* are among the Ranges of the claim.
C4_ForEachTerminates ==
    [][(pc = "loop" /\ pc' = "loop" /\ IsFiniteRange(Obj(self))) => x' # x]_vars

\* the numeric values of the colon-separated tokens of a text
TokenValues(str) == LET args == Split(str.v) IN [j \in 1..Len(args) |-> ToNumber(args[j])]

\* C5: Range.parse(text) returns null when text is not a string, when a token
\* fails to convert to a finite numeric value, or when the token count is not
\* 2 or 3; otherwise Range(t0, 1, t1) for 2 tokens and Range(t0, t1, t2) for 3.
\* It never raises an error.
C5_ParseResult ==
    op = "parse" =>
        /\ thrown = NoError
        /\ IF ~IsString(arg[1]) THEN ret = Null
           ELSE LET t == TokenValues(arg[1])
                IN  IF (\E j \in 1..Len(t) : ~IsFin(t[j])) \/ Len(t) \notin {2, 3}
                    THEN ret = Null
                    ELSE /\ ret # Null
                         /\ Obj(ret.v) = (IF Len(t) = 2 THEN RangeObj(t[1], Fin(1), t[2])
                                          ELSE RangeObj(t[1], t[2], t[3]))

\* the numerals toString writes for r re-parse exactly
RendersExactly(r) ==
    /\ NumEq(ToNumber(Format(r.start)), r.start)
    /\ NumEq(ToNumber(Format(r.end)), r.end)
    /\ NumEq(r.step, Fin(1)) \/ NumEq(ToNumber(Format(r.step)), r.step)

\* C6: round trip: for every Range r whose formatted numerals re-parse
\* exactly, Range.parse(r.toString()) is a Range, not null, with the fields of
\* r, and its toArray() equals r.toArray(), whether step is 1 or not.
C6_RoundTrip ==
    /\ (op = "parse" /\ this # NoRange /\ IsString(arg[1]) /\ RendersExactly(this)
            /\ arg[1].v = ToStringOf(this))
        => (ret # Null /\ thrown = NoError /\ Obj(ret.v) = this)
    /\ (origin = "parse" /\ RendersExactly(this)) => other = this
    /\ (Done(ArrayOps) /\ self = "other" /\ origin = "parse" /\ memo # Null
            /\ RendersExactly(this))
        => ret = memo

\* C6 happens: toArray of the Range parsed from the text of 0:1:2, whose step
\* toString leaves out, has returned what toArray of the Range returned
C6_Witness ==
    /\ Done({"toArray"}) /\ self = "other" /\ origin = "parse"
    /\ this = RangeObj(Fin(0), Fin(1), Fin(2))
    /\ memo = Arr(<<Fin(0), Fin(1), Fin(2)>>) /\ ret = memo

\* the parameters of a constructor call whose argument is given and no number
NonNumeric(a) == {p \in {"start", "step", "end"} :
                    LET v == IF p = "start" THEN a[2] ELSE IF p = "step" THEN a[3] ELSE a[4]
                    IN  v # Null /\ ~IsNum(v)}
Default(v, d) == IF v = Null THEN Fin(d) ELSE v

\* C7: new Range with a given argument that is no number throws a TypeError
\* naming an invalid parameter and makes no Range; with numbers only, the new
\* Range has the given start, step and end, 0, 1 and 0 where they are omitted.
C7_Construction ==
    (op = "new" /\ arg[1] = Bool(TRUE)) =>
        IF NonNumeric(arg) # {}
        THEN /\ thrown.type = "TypeError" /\ thrown.param \in NonNumeric(arg)
             /\ this = NoRange /\ ret = Null
        ELSE /\ thrown = NoError /\ ret = Ref("this")
             /\ this = RangeObj(Default(arg[2], 0), Default(arg[3], 1), Default(arg[4], 0))

\* C7 happens: start is omitted and neither step nor end is a number, and the
\* constructor has thrown
C7_Witness ==
    /\ op = "new" /\ arg = <<Bool(TRUE), Null, Junk, Str(<<"1">>)>>
    /\ thrown.type = "TypeError" /\ this = NoRange

\* C8: no operation changes the Range it is called on: start, step and end
\* stay as constructed, a derived Range changes only when clone or parse makes
\* a new one, a second toArray returns what the first returned, and clone
\* returns another Range with the same three fields.
C8_Frame ==
    [][/\ this # NoRange => this' = this
       /\ other' # other => op' \in {"clone", "parse"}
       /\ (pc = "loop" /\ pc' = "idle" /\ op \in ArrayOps /\ self = "this" /\ memo # Null)
            => ret' = memo
       /\ op' = "clone" => (/\ thrown' = NoError
                            /\ ret' = Ref("other") /\ ret'.v # self'
                            /\ other' = this')]_vars

\* C8 happens: after toArray on a Range, clone, and toArray on the clone, the
\* Range is as constructed and both arrays are equal
C8_Witness ==
    /\ Done({"toArray"}) /\ self = "other" /\ origin = "clone"
    /\ this = RangeObj(Fin(2), Fin(-2), Fin(-2)) /\ other = this
    /\ memo = Arr(<<Fin(2), Fin(0), Fin(-2)>>) /\ ret = memo

\* C9: when step == 0, forEach invokes the callback zero times and toArray()
\* and map() return the empty array, for every start and end, start == end
\* included.
C9_ZeroStep ==
    (self \in {"this", "other"} /\ NumEq(Obj(self).step, Fin(0))) =>
        /\ calls = <<>>
        /\ Done(ArrayOps \cup {"map"}) => ret = Arr(<<>>)

\* C9 happens: map has returned for a Range with step == 0 and start == end
C9_Witness ==
    /\ Done({"map"}) /\ this = RangeObj(Fin(1), Fin(0), Fin(1))
    /\ calls = <<>> /\ ret = Arr(<<>>)

\* C10: isScalar() returns true exactly when toScalar() returns a non-null
\* value; equivalently size()[0] == 1 exactly when toArray().length == 1.
\* Stated for the Ranges whose start, step and end are finite, which are among
\* the Ranges of the claim.
C10_ScalarAgreement ==
    /\ (Done({"toScalar"}) /\ IsFiniteRange(Obj(self)))
        => (IsScalarOf(Obj(self)) <=> ret # Null)
    /\ (Done(ArrayOps) /\ IsFiniteRange(Obj(self)))
        => (NumEq(SizeOf(Obj(self))[1], Fin(1)) <=> Len(ret.v) = 1)

====
